---------------------------- MODULE Spec2Model ----------------------------
(***************************************************************************)
(* A model of the cloud security monitoring demo:                          *)
(*   src/ml/anomaly_detection.py  the detector class, the rule tables,     *)
(*                                the data generator and the pipeline main *)
(*   src/backend/app.py           the serving layer reading the two CSVs   *)
(*                                                                         *)
(* Units.  cpu_usage, network_in and network_out are rounded to two        *)
(* decimals by the generator (anomaly_detection.py:208-210), so they are   *)
(* kept in hundredths: 85.00 is 8500 and the threshold "cpu > 85" reads    *)
(* cpu_usage > 8500.  anomaly_score is kept in hundredths too: -0.3 is     *)
(* -30.  login_count is an integer in the source and stays one.            *)
(*                                                                         *)
(* A DataFrame is [cols |-> set of column names, rows |-> sequence of      *)
(* records].  A CSV file on disk is NoFile or [cols, rows].                *)
(***************************************************************************)
EXTENDS Integers, Sequences, FiniteSets, TLC

VARIABLES
    row, attack_type, risk_level,                    \* one row through the two rule tables
    is_trained, fitted, lastCall, trainsCompleted,   \* a CloudSecurityAnomalyDetector instance
    table,                                           \* the last result of generate_sample_data
    pc, cloud_data, results, anomalies, threats, steps,  \* locals and position of main()
    cloud_logs_csv, detected_threats_csv,            \* the two files under dataset/
    req                                              \* the serving layer's requests

ruleVars == <<row, attack_type, risk_level>>
detVars  == <<is_trained, fitted, lastCall, trainsCompleted>>
genVars  == <<table>>
mainVars == <<pc, cloud_data, results, anomalies, threats, steps>>
fileVars == <<cloud_logs_csv, detected_threats_csv>>
reqVars  == <<req>>
vars == <<ruleVars, detVars, genVars, mainVars, fileVars, reqVars>>

NoResult == "(none)"
NoRow    == [none |-> TRUE]
NoFile   == [missing |-> TRUE]
NoFrame  == [cols |-> {}, rows |-> <<>>]       \* pd.DataFrame()

Min(S) == CHOOSE x \in S : \A y \in S : x <= y
Range(f) == {f[i] : i \in DOMAIN f}

(***************************************************************************)
(* The two rule tables.                                                    *)
(***************************************************************************)

\* A faulty variant (against C1): the "Phishing Impact" rule moved to the front of the chain.
classify_attack_type_reordered(r) ==
    LET cpu     == r.cpu_usage
        net_in  == r.network_in
        net_out == r.network_out
        logins  == r.login_count
    IN  IF logins > 20 THEN "Phishing Impact"
        ELSE IF net_out > 80000 /\ cpu > 8500 THEN "Data Breach"
        ELSE IF logins > 15 /\ cpu > 8000 THEN "Account Hijacking"
        ELSE IF cpu > 9500 /\ net_in > 60000 THEN "Malware Injection"
        ELSE IF net_in > 70000 /\ net_out > 70000 THEN "Insecure APIs"
        ELSE IF net_in > 90000 \/ net_out > 90000 THEN "DoS / DDoS"
        ELSE IF cpu > 9000 /\ logins < 5 THEN "Insider Threats"
        ELSE IF logins > 10 /\ cpu > 7500 THEN "Shared Vulnerabilities"
        ELSE IF cpu < 2000 /\ net_out > 50000 THEN "Cloud Misconfiguration"
        ELSE "Unknown Threat"

classify_attack_type(r) ==
    LET cpu     == r.cpu_usage
        net_in  == r.network_in
        net_out == r.network_out
        logins  == r.login_count
    IN  IF net_out > 80000 /\ cpu > 8500 THEN "Data Breach"
        ELSE IF logins > 15 /\ cpu > 8000 THEN "Account Hijacking"
        ELSE IF cpu > 9500 /\ net_in > 60000 THEN "Malware Injection"
        ELSE IF net_in > 70000 /\ net_out > 70000 THEN "Insecure APIs"
        ELSE IF logins > 20 THEN "Phishing Impact"
        ELSE IF net_in > 90000 \/ net_out > 90000 THEN "DoS / DDoS"
        ELSE IF cpu > 9000 /\ logins < 5 THEN "Insider Threats"
        ELSE IF logins > 10 /\ cpu > 7500 THEN "Shared Vulnerabilities"
        ELSE IF cpu < 2000 /\ net_out > 50000 THEN "Cloud Misconfiguration"
        ELSE "Unknown Threat"

\* A faulty variant (against C2): the Medium rule compares with >= instead of >.
calculate_risk_level_inclusive(r) ==
    LET score   == r.anomaly_score
        cpu     == r.cpu_usage
        net_out == r.network_out
    IN  IF score < -30 \/ cpu > 9000 \/ net_out > 80000 THEN "High"
        ELSE IF score <= -15 \/ cpu >= 7000 \/ net_out >= 50000 THEN "Medium"
        ELSE "Low"

\* A faulty variant (against C9): the High rule forgets the cpu test.
calculate_risk_level_no_cpu(r) ==
    LET score   == r.anomaly_score
        cpu     == r.cpu_usage
        net_out == r.network_out
    IN  IF score < -30 \/ net_out > 80000 THEN "High"
        ELSE IF score < -15 \/ cpu > 7000 \/ net_out > 50000 THEN "Medium"
        ELSE "Low"

calculate_risk_level(r) ==
    LET score   == r.anomaly_score
        cpu     == r.cpu_usage
        net_out == r.network_out
    IN  IF score < -30 \/ cpu > 9000 \/ net_out > 80000 THEN "High"
        ELSE IF score < -15 \/ cpu > 7000 \/ net_out > 50000 THEN "Medium"
        ELSE "Low"

(***************************************************************************)
(* CloudSecurityAnomalyDetector: __init__, train, detect_anomalies.        *)
(* The scaler and the forest are library objects; what is kept of them is  *)
(* the feature matrix each was last fitted on, or Unfitted.                *)
(***************************************************************************)
Features == {"login_count", "cpu_usage", "network_in", "network_out"}
ActivityCols == {"user_id", "login_count", "cpu_usage", "network_in", "network_out",
                 "login_status"}
Unfitted == <<>>          \* no matrix: a fit never succeeds on zero rows

\* The exception detect_anomalies raises on an untrained instance (line 82).
UntrainedModelError == "Exception: Model not trained. Call train() first."

FeatureMatrix(data) ==
    [i \in 1..Len(data.rows) |->
        <<data.rows[i].login_count, data.rows[i].cpu_usage,
          data.rows[i].network_in, data.rows[i].network_out>>]

NewDetector == [is_trained |-> FALSE, fitted |-> [scaler |-> Unfitted, model |-> Unfitted]]

\* A faulty variant (against C3): is_trained is set on entry, before the fit can fail.
train_flag_first(det, data) ==
    IF ~(Features \subseteq data.cols)
    THEN [is_trained |-> TRUE, fitted |-> det.fitted, outcome |-> "KeyError"]
    ELSE IF data.rows = <<>>
    THEN [is_trained |-> TRUE,
          fitted |-> [det.fitted EXCEPT !.scaler = Unfitted],
          outcome |-> "ValueError"]
    ELSE [is_trained |-> TRUE,
          fitted |-> [scaler |-> FeatureMatrix(data), model |-> FeatureMatrix(data)],
          outcome |-> "ok"]

\* train(data): data[features] raises KeyError on a missing column (line 59);
\* fit_transform resets the scaler and then rejects an empty matrix (line 62);
\* only after both fits is is_trained set (line 66).
train(det, data) ==
    IF ~(Features \subseteq data.cols)
    THEN [is_trained |-> det.is_trained, fitted |-> det.fitted, outcome |-> "KeyError"]
    ELSE IF data.rows = <<>>
    THEN [is_trained |-> det.is_trained,
          fitted |-> [det.fitted EXCEPT !.scaler = Unfitted],
          outcome |-> "ValueError"]
    ELSE [is_trained |-> TRUE,
          fitted |-> [scaler |-> FeatureMatrix(data), model |-> FeatureMatrix(data)],
          outcome |-> "ok"]

\* detect_anomalies(data).  The forest's output is not computed here: scores[i]
\* is the value score_samples gives row i and offset the forest's threshold;
\* predict marks a row -1 exactly when its score is below the threshold.
detect_anomalies(det, data, scores, offset) ==
    IF ~det.is_trained
    THEN [outcome |-> UntrainedModelError, result |-> NoFrame]
    ELSE IF ~(Features \subseteq data.cols)
    THEN [outcome |-> "KeyError", result |-> NoFrame]
    ELSE IF det.fitted.scaler = Unfitted
    THEN [outcome |-> "NotFittedError", result |-> NoFrame]
    ELSE IF data.rows = <<>>
    THEN [outcome |-> "ValueError", result |-> NoFrame]
    ELSE [outcome |-> "ok",
          result  |-> [cols |-> data.cols \cup {"is_anomaly", "anomaly_score"},
                       rows |-> [i \in 1..Len(data.rows) |->
                                   [user_id       |-> data.rows[i].user_id,
                                    login_count   |-> data.rows[i].login_count,
                                    cpu_usage     |-> data.rows[i].cpu_usage,
                                    network_in    |-> data.rows[i].network_in,
                                    network_out   |-> data.rows[i].network_out,
                                    login_status  |-> data.rows[i].login_status,
                                    is_anomaly    |-> scores[i] < offset,
                                    anomaly_score |-> scores[i]]]]]

\* What score_samples and the fitted threshold may come out as (hundredths).
Scores  == {-50, -10}
Offsets == {-60, -30, 0}

\* The call before this one on the instance, and how it ended.
Previous == [op |-> lastCall.op, outcome |-> lastCall.outcome]

\* A call of train on the instance held in is_trained/fitted.
CallTrain(data) ==
    LET t == train([is_trained |-> is_trained, fitted |-> fitted], data)
    IN  /\ is_trained' = t.is_trained
        /\ fitted' = t.fitted
        /\ trainsCompleted' = IF t.outcome = "ok" THEN trainsCompleted + 1
                              ELSE trainsCompleted
        /\ lastCall' = [op |-> "train", outcome |-> t.outcome, result |-> NoFrame,
                        trainsBefore |-> trainsCompleted, after |-> Previous]

\* A call of detect_anomalies on that instance.
CallDetect(data) ==
    \E scores \in [1..Len(data.rows) -> Scores], offset \in Offsets :
        LET d == detect_anomalies([is_trained |-> is_trained, fitted |-> fitted],
                                  data, scores, offset)
        IN  /\ lastCall' = [op |-> "detect", outcome |-> d.outcome, result |-> d.result,
                            trainsBefore |-> trainsCompleted, after |-> Previous]
            /\ UNCHANGED <<is_trained, fitted, trainsCompleted>>

(***************************************************************************)
(* generate_sample_data.  numpy's seeded draws are not computed: a row of  *)
(* a pattern is any of the pattern's representative rows, and the shuffle  *)
(* df.sample(frac=1) is any permutation.                                   *)
(***************************************************************************)
UserId(i) == <<"USER", i>>                  \* f"USER_{str(i).zfill(3)}"

\* login_count in [1,8), cpu_usage in [20,65), network_in/out in [50,300)
NormalPattern ==
    { [login_count |-> 1, cpu_usage |-> 2000, network_in |-> 5000,
       network_out |-> 29999, login_status |-> "success"],
      [login_count |-> 7, cpu_usage |-> 6499, network_in |-> 29999,
       network_out |-> 5000, login_status |-> "failed"] }

\* login_count in [8,25), cpu_usage in [70,99), network_in/out in [400,950)
AnomalousPattern ==
    { [login_count |-> 24, cpu_usage |-> 9000, network_in |-> 50000,
       network_out |-> 85000, login_status |-> "failed"],
      [login_count |-> 8, cpu_usage |-> 7000, network_in |-> 40000,
       network_out |-> 40000, login_status |-> "success"],
      [login_count |-> 16, cpu_usage |-> 8100, network_in |-> 94999,
       network_out |-> 45000, login_status |-> "failed"] }

Permutations1(n) == {p \in [1..n -> 1..n] : \A i, j \in 1..n : p[i] = p[j] => i = j}

\* A faulty variant (against C6): the product rounded to the nearest integer instead of truncated.
normal_count_rounded(num_records) == (num_records * 80 + 50) \div 100

\* int(num_records * 0.80), line 180.  For 0 <= n < 2^50 the double product
\* truncates to the same integer as floor(4n/5).
normal_count(num_records) == (num_records * 80) \div 100

anomaly_count(num_records) == num_records - normal_count(num_records)

WithUser(i, r) ==
    [user_id |-> UserId(i), login_count |-> r.login_count, cpu_usage |-> r.cpu_usage,
     network_in |-> r.network_in, network_out |-> r.network_out,
     login_status |-> r.login_status]

\* Every DataFrame generate_sample_data(num_records) may return.
generate_sample_data(num_records) ==
    LET nc == normal_count(num_records)
        ac == anomaly_count(num_records)
    IN  { [cols |-> ActivityCols,
           rows |-> [i \in 1..num_records |->
                       IF p[i] <= nc THEN WithUser(p[i], normal[p[i]])
                       ELSE WithUser(p[i], anomaly[p[i] - nc])]] :
          normal \in [1..nc -> NormalPattern],
          anomaly \in [1..ac -> AnomalousPattern],
          p \in Permutations1(num_records) }

(***************************************************************************)
(* CSV files.                                                              *)
(***************************************************************************)
\* df.to_csv(path, index=False): the header line and the rows.  A frame with
\* no columns leaves a file with no header.
to_csv(df) == [cols |-> df.cols, rows |-> df.rows]

\* pd.read_csv(path): raises when the file is missing or has no columns.
read_csv_fails(file) == file = NoFile \/ file.cols = {}

read_csv(file) == [cols |-> file.cols, rows |-> file.rows]

\* df.empty
empty(df) == df.cols = {} \/ df.rows = <<>>

(***************************************************************************)
(* main(): the pipeline run.                                               *)
(***************************************************************************)
ThreatCols == {"user_id", "attack_type", "risk_level", "cpu_usage", "network_out",
               "anomaly_score"}

\* A faulty variant (against C5): the is_anomaly filter dropped.
anomalous_rows_unfiltered(res) == res

\* results[results['is_anomaly'] == True], line 241
RECURSIVE anomalous_rows(_)
anomalous_rows(res) ==
    IF res = <<>> THEN <<>>
    ELSE IF Head(res).is_anomaly THEN <<Head(res)>> \o anomalous_rows(Tail(res))
    ELSE anomalous_rows(Tail(res))

\* the loop of lines 247-259
classify_rows(anoms) ==
    [i \in 1..Len(anoms) |->
        [user_id       |-> anoms[i].user_id,
         attack_type   |-> classify_attack_type(anoms[i]),
         risk_level    |-> calculate_risk_level(anoms[i]),
         cpu_usage     |-> anoms[i].cpu_usage,
         network_out   |-> anoms[i].network_out,
         anomaly_score |-> anoms[i].anomaly_score]]

\* pd.DataFrame(threats): a list of dicts; no dicts, no columns.
DataFrame(records, cols) ==
    IF records = <<>> THEN NoFrame ELSE [cols |-> cols, rows |-> records]

\* A faulty variant (against C7): a failing step is swallowed and the run goes on.
after_step_swallowed(ok, next) == next

\* An exception raised in a step leaves main(): nothing catches it (lines 215-278).
after_step(ok, next) == IF ok THEN next ELSE "failed"

NumRecords == 3        \* stands for the 200 of generate_sample_data(200), line 227

Done(step) == [step |-> step, ok |-> TRUE]
Failed(step) == [step |-> step, ok |-> FALSE]

\* open(path, 'w') failed (the file is as it was) or the write broke off after it
\* (the file is left truncated).
AfterFailedWrite(file) == {file, to_csv(NoFrame)}

\* line 227
MainGenerate ==
    /\ pc = "start"
    /\ \E df \in generate_sample_data(NumRecords) : cloud_data' = df
    /\ pc' = "generated"
    /\ steps' = Append(steps, Done("generate"))
    /\ UNCHANGED <<results, anomalies, threats, ruleVars, detVars, genVars, fileVars, reqVars>>

\* line 228
MainPersistLogs ==
    /\ pc = "generated"
    /\ \/ /\ cloud_logs_csv' = to_csv(cloud_data)
          /\ pc' = after_step(TRUE, "persisted")
          /\ steps' = Append(steps, Done("persist_logs"))
       \/ /\ cloud_logs_csv' \in AfterFailedWrite(cloud_logs_csv)
          /\ pc' = after_step(FALSE, "persisted")
          /\ steps' = Append(steps, Failed("persist_logs"))
    /\ UNCHANGED <<cloud_data, results, anomalies, threats, detected_threats_csv,
                   ruleVars, detVars, genVars, reqVars>>

\* lines 234-235: a new detector, trained on cloud_data
MainTrain ==
    /\ pc = "persisted"
    /\ LET t == train(NewDetector, cloud_data)
       IN  /\ is_trained' = t.is_trained
           /\ fitted' = t.fitted
           /\ trainsCompleted' = IF t.outcome = "ok" THEN 1 ELSE 0
           /\ lastCall' = [op |-> "train", outcome |-> t.outcome, result |-> NoFrame,
                           trainsBefore |-> 0, after |-> Previous]
           /\ pc' = after_step(t.outcome = "ok", "trained")
           /\ steps' = Append(steps, IF t.outcome = "ok" THEN Done("train")
                                     ELSE Failed("train"))
    /\ UNCHANGED <<cloud_data, results, anomalies, threats, ruleVars, genVars, fileVars,
                   reqVars>>

\* line 240
MainScore ==
    /\ pc = "trained"
    /\ CallDetect(cloud_data)
    /\ results' = lastCall'.result.rows
    /\ pc' = after_step(lastCall'.outcome = "ok", "scored")
    /\ steps' = Append(steps, IF lastCall'.outcome = "ok" THEN Done("score")
                              ELSE Failed("score"))
    /\ UNCHANGED <<cloud_data, anomalies, threats, ruleVars, genVars, fileVars, reqVars>>

\* lines 241-242
MainFilter ==
    /\ pc = "scored"
    /\ anomalies' = anomalous_rows(results)
    /\ pc' = after_step(results # <<>>, "filtered")     \* len(anomalies)/len(results)
    /\ steps' = Append(steps, IF results # <<>> THEN Done("filter") ELSE Failed("filter"))
    /\ UNCHANGED <<cloud_data, results, threats, ruleVars, detVars, genVars, fileVars,
                   reqVars>>

\* lines 247-259
MainClassify ==
    /\ pc = "filtered"
    /\ threats' = classify_rows(anomalies)
    /\ pc' = "classified"
    /\ steps' = Append(steps, Done("classify"))
    /\ UNCHANGED <<cloud_data, results, anomalies, ruleVars, detVars, genVars, fileVars,
                   reqVars>>

\* lines 262-263
MainPersistThreats ==
    /\ pc = "classified"
    /\ \/ /\ detected_threats_csv' = to_csv(DataFrame(threats, ThreatCols))
          /\ pc' = after_step(TRUE, "persisted_threats")
          /\ steps' = Append(steps, Done("persist_threats"))
       \/ /\ detected_threats_csv' \in AfterFailedWrite(detected_threats_csv)
          /\ pc' = after_step(FALSE, "persisted_threats")
          /\ steps' = Append(steps, Failed("persist_threats"))
    /\ UNCHANGED <<cloud_data, results, anomalies, threats, cloud_logs_csv,
                   ruleVars, detVars, genVars, reqVars>>

\* lines 268-278: threats_df['attack_type'] raises KeyError on a frame without columns
MainSummary ==
    /\ pc = "persisted_threats"
    /\ pc' = after_step(threats # <<>>, "done")
    /\ steps' = Append(steps, IF threats # <<>> THEN Done("summary") ELSE Failed("summary"))
    /\ UNCHANGED <<cloud_data, results, anomalies, threats, ruleVars, detVars, genVars,
                   fileVars, reqVars>>

(***************************************************************************)
(* The serving layer, src/backend/app.py.                                  *)
(***************************************************************************)
None == [is_none |-> TRUE]

RECURSIVE SumOf(_)
SumOf(xs) == IF xs = <<>> THEN 0 ELSE Head(xs) + SumOf(Tail(xs))

\* mean(...) rounded to two decimals: the nearest hundredth of sum/n
RoundedMean(xs) == (2 * SumOf(xs) + Len(xs)) \div (2 * Len(xs))

RECURSIVE RowsOfUser(_, _)
RowsOfUser(rows, user_id) ==
    IF rows = <<>> THEN <<>>
    ELSE IF Head(rows).user_id = user_id
         THEN <<Head(rows)>> \o RowsOfUser(Tail(rows), user_id)
         ELSE RowsOfUser(Tail(rows), user_id)

Column(rows, c) == [i \in 1..Len(rows) |-> rows[i][c]]

\* load_data, lines 32-47: each read that raises leaves an empty DataFrame
load_frame(file) == IF read_csv_fails(file) THEN NoFrame ELSE read_csv(file)

\* lines 76-78: the lambda over one user's risk_level values
summary_risk(values) ==
    IF "High" \in values THEN "High"
    ELSE IF "Medium" \in values THEN "Medium" ELSE "Low"

\* lines 62-91: one user's entry of user_stats before the sort
summary_entry(cloud_logs, threats_df, user_id) ==
    LET mine  == RowsOfUser(cloud_logs.rows, user_id)
        theirs == IF empty(threats_df) THEN <<>> ELSE RowsOfUser(threats_df.rows, user_id)
    IN  [user_id      |-> user_id,
         login_count  |-> SumOf(Column(mine, "login_count")),
         cpu_usage    |-> RoundedMean(Column(mine, "cpu_usage")),
         network_in   |-> RoundedMean(Column(mine, "network_in")),
         network_out  |-> RoundedMean(Column(mine, "network_out")),
         threat_count |-> IF empty(threats_df) THEN 0 ELSE Len(theirs),
         risk_level   |-> IF empty(threats_df) \/ theirs = <<>> THEN "Normal"
                          ELSE summary_risk(Range(Column(theirs, "risk_level")))]

risk_order(level) ==
    CASE level = "High" -> 3 [] level = "Medium" -> 2 [] level = "Low" -> 1
      [] level = "Normal" -> 0

\* sort_values(['threat_count', 'risk_order'], ascending=[False, False])
Before(a, b) ==
    \/ a.threat_count > b.threat_count
    \/ a.threat_count = b.threat_count
         /\ risk_order(a.risk_level) > risk_order(b.risk_level)

\* the user ids of a table in groupby order (ascending)
RECURSIVE SortedIds(_)
SortedIds(ids) ==
    IF ids = {} THEN <<>>
    ELSE LET m == CHOOSE x \in ids : \A y \in ids : x[2] <= y[2]
         IN  <<m>> \o SortedIds(ids \ {m})

\* get_user_summary, lines 52-99
get_user_summary(cloud_logs, threats_df) ==
    IF empty(cloud_logs) THEN [raised |-> "none", value |-> <<>>]
    ELSE IF "user_id" \notin cloud_logs.cols
            \/ (~empty(threats_df) /\ "user_id" \notin threats_df.cols)
    THEN [raised |-> "KeyError", value |-> <<>>]
    ELSE LET ids == SortedIds(Range(Column(cloud_logs.rows, "user_id")))
             E   == [i \in 1..Len(ids) |-> summary_entry(cloud_logs, threats_df, ids[i])]
             pos(i) == 1 + Cardinality({j \in 1..Len(E) :
                                           Before(E[j], E[i])
                                           \/ (~Before(E[i], E[j]) /\ j < i)})
         IN  [raised |-> "none",
              value  |-> [k \in 1..Len(E) |-> E[CHOOSE i \in 1..Len(E) : pos(i) = k]]]

\* A faulty variant (against C10): the chain stops after "Medium", so Low-only users stay "Normal".
highest_risk_no_low(values) ==
    IF "High" \in values THEN "High"
    ELSE IF "Medium" \in values THEN "Medium" ELSE "Normal"

\* lines 129-140
highest_risk(values) ==
    IF "High" \in values THEN "High"
    ELSE IF "Medium" \in values THEN "Medium"
    ELSE IF "Low" \in values THEN "Low" ELSE "Normal"

\* get_user_details, lines 102-152: the two column lookups of lines 115-116 come
\* before every emptiness test
get_user_details(cloud_logs, threats_df, user_id) ==
    IF "user_id" \notin cloud_logs.cols \/ "user_id" \notin threats_df.cols
    THEN [raised |-> "KeyError", value |-> None]
    ELSE LET user_logs    == RowsOfUser(cloud_logs.rows, user_id)
             user_threats == RowsOfUser(threats_df.rows, user_id)
         IN  IF user_logs = <<>> THEN [raised |-> "none", value |-> None]
             ELSE [raised |-> "none",
                   value |->
                     [user_id         |-> user_id,
                      total_logins    |-> SumOf(Column(user_logs, "login_count")),
                      avg_cpu_usage   |-> RoundedMean(Column(user_logs, "cpu_usage")),
                      avg_network_in  |-> RoundedMean(Column(user_logs, "network_in")),
                      avg_network_out |-> RoundedMean(Column(user_logs, "network_out")),
                      threat_count    |-> Len(user_threats),
                      highest_risk    |-> IF user_threats = <<>> THEN "Normal"
                                          ELSE highest_risk(
                                                 Range(Column(user_threats, "risk_level"))),
                      threats         |-> user_threats,
                      activity_logs   |-> user_logs]]

\* value_counts().to_dict()
ValueCounts(xs) == [v \in Range(xs) |-> Cardinality({i \in 1..Len(xs) : xs[i] = v})]

\* an exception escaping a view function: Flask answers 500
Raised(exc) ==
    [status |-> 500, raised |-> exc,
     body |-> [success |-> FALSE, error |-> "Internal server error"]]

\* api_users, lines 167-175
api_users(cloud_logs, threats_df) ==
    LET users == get_user_summary(cloud_logs, threats_df)
    IN  IF users.raised # "none" THEN Raised(users.raised)
        ELSE [status |-> 200, raised |-> "none",
              body |-> [success |-> TRUE, count |-> Len(users.value),
                        users |-> users.value]]

\* user_detail, lines 178-186
user_detail(cloud_logs, threats_df, user_id) ==
    LET user_data == get_user_details(cloud_logs, threats_df, user_id)
    IN  IF user_data.raised # "none" THEN Raised(user_data.raised)
        ELSE IF user_data.value = None
        THEN [status |-> 404, raised |-> "none", body |-> [text |-> "User not found"]]
        ELSE [status |-> 200, raised |-> "none",
              body |-> [template |-> "user_detail.html", user |-> user_data.value]]

\* api_user_detail, lines 189-200
api_user_detail(cloud_logs, threats_df, user_id) ==
    LET user_data == get_user_details(cloud_logs, threats_df, user_id)
    IN  IF user_data.raised # "none" THEN Raised(user_data.raised)
        ELSE IF user_data.value = None
        THEN [status |-> 404, raised |-> "none",
              body |-> [success |-> FALSE, error |-> "User not found"]]
        ELSE [status |-> 200, raised |-> "none",
              body |-> [success |-> TRUE, user |-> user_data.value]]

\* api_statistics, lines 203-227
api_statistics(cloud_logs, threats_df) ==
    IF (~empty(cloud_logs) /\ "user_id" \notin cloud_logs.cols)
       \/ (~empty(threats_df) /\ ~({"attack_type", "risk_level"} \subseteq threats_df.cols))
    THEN Raised("KeyError")
    ELSE [status |-> 200, raised |-> "none",
          body |->
            [success |-> TRUE,
             total_users |-> IF empty(cloud_logs) THEN 0
                             ELSE Cardinality(Range(Column(cloud_logs.rows, "user_id"))),
             total_threats |-> IF empty(threats_df) THEN 0 ELSE Len(threats_df.rows),
             threat_distribution |->
                 IF empty(threats_df) THEN <<>>
                 ELSE ValueCounts(Column(threats_df.rows, "attack_type")),
             risk_distribution |->
                 IF empty(threats_df) THEN <<>>
                 ELSE ValueCounts(Column(threats_df.rows, "risk_level"))]]

\* api_refresh, lines 230-245: the answer (the timestamp left out)
api_refresh ==
    [status |-> 200, raised |-> "none",
     body |-> [success |-> TRUE, message |-> "Data refresh triggered"]]

\* A faulty variant (against C8): the refresh does what its docstring says and re-runs the pipeline,
\* which rewrites both tables.
api_refresh_reruns_pipeline(files) ==
    <<to_csv(CHOOSE df \in generate_sample_data(1) : TRUE), to_csv(NoFrame)>>

\* What api_refresh leaves of <<cloud_logs.csv, detected_threats.csv>>: its body
\* (lines 233-240) only builds the answer.
api_refresh_files(files) == files

IdleRequest ==
    [kind |-> "none", user_id |-> UserId(0), pc |-> "idle",
     cloud_logs |-> NoFrame, threats |-> NoFrame, response |-> None]

Kinds == {"api_users", "user_detail", "api_user_detail", "api_statistics", "api_refresh"}
WithUserId == {"user_detail", "api_user_detail"}
RequestedIds == {UserId(1), UserId(2)}

\* a request arrives and its view function is entered
ReqBegin(r) ==
    /\ req[r].pc = "idle"
    /\ \E k \in Kinds, u \in RequestedIds :
          /\ k \notin WithUserId => u = UserId(1)
          /\ req' = [req EXCEPT ![r] = [IdleRequest EXCEPT !.kind = k, !.pc = "called",
                                          !.user_id = IF k \in WithUserId THEN u
                                                      ELSE UserId(0)]]
    /\ UNCHANGED <<ruleVars, detVars, genVars, mainVars, fileVars>>

\* load_data, lines 33-38
ReqReadLogs(r) ==
    /\ req[r].pc = "called" /\ req[r].kind # "api_refresh"
    /\ req' = [req EXCEPT ![r].cloud_logs = load_frame(cloud_logs_csv),
                          ![r].pc = "logs_read"]
    /\ UNCHANGED <<ruleVars, detVars, genVars, mainVars, fileVars>>

\* load_data, lines 40-47
ReqReadThreats(r) ==
    /\ req[r].pc = "logs_read"
    /\ req' = [req EXCEPT ![r].threats = load_frame(detected_threats_csv),
                          ![r].pc = "loaded"]
    /\ UNCHANGED <<ruleVars, detVars, genVars, mainVars, fileVars>>

\* the rest of the view function, on the frames load_data returned
ReqRespond(r) ==
    /\ req[r].pc = "loaded"
    /\ LET q == req[r]
           answer == CASE q.kind = "api_users" -> api_users(q.cloud_logs, q.threats)
                       [] q.kind = "user_detail" ->
                            user_detail(q.cloud_logs, q.threats, q.user_id)
                       [] q.kind = "api_user_detail" ->
                            api_user_detail(q.cloud_logs, q.threats, q.user_id)
                       [] q.kind = "api_statistics" ->
                            api_statistics(q.cloud_logs, q.threats)
       IN  req' = [req EXCEPT ![r].response = answer, ![r].pc = "done"]
    /\ UNCHANGED <<ruleVars, detVars, genVars, mainVars, fileVars>>

\* api_refresh, lines 230-245
ReqRefresh(r) ==
    /\ req[r].pc = "called" /\ req[r].kind = "api_refresh"
    /\ req' = [req EXCEPT ![r].response = api_refresh, ![r].pc = "done"]
    /\ LET files == api_refresh_files(<<cloud_logs_csv, detected_threats_csv>>)
       IN  cloud_logs_csv' = files[1] /\ detected_threats_csv' = files[2]
    /\ UNCHANGED <<ruleVars, detVars, genVars, mainVars>>

(***************************************************************************)
(* The parts of the state a specification does not use.                    *)
(***************************************************************************)
NoCall == [op |-> "none", outcome |-> "none", result |-> NoFrame, trainsBefore |-> 0,
           after |-> [op |-> "none", outcome |-> "none"]]
NoTable == [num_records |-> -1, df |-> NoFrame]

IdleRules == row = NoRow /\ attack_type = NoResult /\ risk_level = NoResult
IdleDet   == /\ is_trained = NewDetector.is_trained
             /\ fitted = NewDetector.fitted
             /\ lastCall = NoCall
             /\ trainsCompleted = 0
IdleGen   == table = NoTable
IdleMain  == /\ pc = "idle"
             /\ cloud_data = NoFrame
             /\ results = <<>> /\ anomalies = <<>> /\ threats = <<>> /\ steps = <<>>
IdleFiles == cloud_logs_csv = NoFile /\ detected_threats_csv = NoFile
IdleReq   == req = <<>>

\* What an earlier run left under dataset/.
OldLogs == to_csv([cols |-> ActivityCols,
                   rows |-> <<WithUser(1, CHOOSE r \in AnomalousPattern : r.login_count = 24)>>])
OldThreats == to_csv([cols |-> ThreatCols,
                      rows |-> <<[user_id |-> UserId(1), attack_type |-> "Data Breach",
                                  risk_level |-> "High", cpu_usage |-> 9000,
                                  network_out |-> 85000, anomaly_score |-> -50]>>])

(***************************************************************************)
(* SpecMain: one run of main().                                            *)
(***************************************************************************)
InitMain ==
    /\ pc = "start"
    /\ cloud_data = NoFrame
    /\ results = <<>> /\ anomalies = <<>> /\ threats = <<>> /\ steps = <<>>
    /\ \/ cloud_logs_csv = NoFile /\ detected_threats_csv = NoFile
       \/ cloud_logs_csv = OldLogs /\ detected_threats_csv = OldThreats
    /\ IdleRules /\ IdleDet /\ IdleGen /\ IdleReq

NextMain ==
    \/ MainGenerate
    \/ MainPersistLogs
    \/ MainTrain
    \/ MainScore
    \/ MainFilter
    \/ MainClassify
    \/ MainPersistThreats
    \/ MainSummary

SpecMain == InitMain /\ [][NextMain]_vars


\* C5: once the run has written the threat table, the table holds exactly one
\* Threat Record for each scored record with is_anomaly = true and none for a
\* record with is_anomaly = false, and every Threat Record's user_id is the
\* user_id of an Activity Record the same run wrote to the activity table.
C5_ThreatTableIsTheAnomalousRows ==
    Done("persist_threats") \in Range(steps) =>
        LET T == detected_threats_csv.rows
        IN  /\ \A i \in 1..Len(results) :
                 Cardinality({j \in 1..Len(T) : T[j].user_id = results[i].user_id})
                    = IF results[i].is_anomaly THEN 1 ELSE 0
            /\ Len(T) = Cardinality({i \in 1..Len(results) : results[i].is_anomaly})
            /\ Done("persist_logs") \in Range(steps)
            /\ \A j \in 1..Len(T) :
                 \E k \in 1..Len(cloud_logs_csv.rows) :
                    cloud_logs_csv.rows[k].user_id = T[j].user_id

C5_Witness ==
    /\ Done("persist_threats") \in Range(steps)
    /\ Len(detected_threats_csv.rows) >= 1
    /\ \E i \in 1..Len(results) : ~results[i].is_anomaly

PipelineOrder ==
    <<"generate", "persist_logs", "train", "score", "filter", "classify",
      "persist_threats", "summary">>

C7_Step ==
    /\ \A k \in 1..Len(steps) : steps[k].ok
    /\ Len(steps') = Len(steps) + 1
    /\ SubSeq(steps', 1, Len(steps)) = steps
    /\ steps'[Len(steps')].step = PipelineOrder[Len(steps')]
    /\ is_trained' => Done("train") \in Range(steps')
    /\ cloud_logs_csv' # cloud_logs_csv => steps'[Len(steps')].step = "persist_logs"
    /\ detected_threats_csv' # detected_threats_csv
          => steps'[Len(steps')].step = "persist_threats"

C7_AfterFailedLogsWrite ==
    Failed("persist_logs") \in Range(steps) =>
        /\ ~is_trained
        /\ detected_threats_csv \in {NoFile, OldThreats}
        /\ pc = "failed"

\* C7: every step of a run of main() is the next one of the order generate,
\* persist the activity table, train, score, filter, classify, persist the
\* threat table (then the summary), and is taken only when every earlier step of
\* the run completed without failure, so no failed step is followed by another
\* try; a run whose activity-table write failed has trained no model and has
\* left the threat table as it found it.
C7_StepsInOrderNoRetry == [][C7_Step]_vars /\ []C7_AfterFailedLogsWrite

C7_Witness ==
    /\ pc = "failed"
    /\ steps = <<Done("generate"), Failed("persist_logs")>>
    /\ ~is_trained

(***************************************************************************)
(* SpecDetector: one detector instance under any sequence of calls.        *)
(***************************************************************************)
MaxTrains == 2         \* completed train calls counted per instance

Malformed  == [cols |-> {"user_id"}, rows |-> <<[user_id |-> UserId(1)]>>]
EmptyFrame == [cols |-> ActivityCols, rows |-> <<>>]
DetInputs  == {Malformed, EmptyFrame} \cup generate_sample_data(1)
                 \cup {df \in generate_sample_data(2) :
                          df.rows[1].login_count = 1 /\ df.rows[2].login_count = 24}

\* __init__, lines 34-48
DetConstruct ==
    /\ is_trained' = NewDetector.is_trained
    /\ fitted' = NewDetector.fitted
    /\ trainsCompleted' = 0
    /\ lastCall' = [op |-> "init", outcome |-> "ok", result |-> NoFrame, trainsBefore |-> 0,
                    after |-> [op |-> "none", outcome |-> "none"]]
    /\ UNCHANGED <<ruleVars, genVars, mainVars, fileVars, reqVars>>

DetTrain ==
    /\ trainsCompleted < MaxTrains
    /\ \E data \in DetInputs : CallTrain(data)
    /\ UNCHANGED <<ruleVars, genVars, mainVars, fileVars, reqVars>>

DetDetect ==
    /\ \E data \in DetInputs : CallDetect(data)
    /\ UNCHANGED <<ruleVars, genVars, mainVars, fileVars, reqVars>>

InitDetector == IdleDet /\ IdleRules /\ IdleGen /\ IdleMain /\ IdleFiles /\ IdleReq

NextDetector == DetConstruct \/ DetTrain \/ DetDetect

SpecDetector == InitDetector /\ [][NextDetector]_vars

\* C3: a detect_anomalies call made while no train call has completed on the
\* instance fails with the untrained error and returns no scored records,
\* whatever its input.
C3_DetectBeforeTrainFails ==
    (lastCall.op = "detect" /\ lastCall.trainsBefore = 0) =>
        /\ lastCall.outcome = UntrainedModelError
        /\ lastCall.result = NoFrame

C3_Witness ==
    /\ lastCall.op = "detect"
    /\ lastCall.trainsBefore = 0
    /\ lastCall.after = [op |-> "train", outcome |-> "ValueError"]
    /\ lastCall.outcome = UntrainedModelError

(***************************************************************************)
(* SpecGen: one call of generate_sample_data.                              *)
(***************************************************************************)
MaxN == 5              \* the largest num_records tried

CallGenerate ==
    /\ table = NoTable
    /\ \E n \in 0..MaxN : \E df \in generate_sample_data(n) :
          table' = [num_records |-> n, df |-> df]
    /\ UNCHANGED <<ruleVars, detVars, mainVars, fileVars, reqVars>>

InitGen == IdleGen /\ IdleRules /\ IdleDet /\ IdleMain /\ IdleFiles /\ IdleReq

NextGen == CallGenerate

SpecGen == InitGen /\ [][NextGen]_vars

InRange(x, lo, hi) == lo <= x /\ x <= hi

\* The two patterns' ranges (lines 183-186 and 194-197) share no login_count.
FromNormalPattern(r) ==
    /\ InRange(r.login_count, 1, 7) /\ InRange(r.cpu_usage, 2000, 6500)
    /\ InRange(r.network_in, 5000, 30000) /\ InRange(r.network_out, 5000, 30000)

FromAnomalousPattern(r) ==
    /\ InRange(r.login_count, 8, 24) /\ InRange(r.cpu_usage, 7000, 9900)
    /\ InRange(r.network_in, 40000, 95000) /\ InRange(r.network_out, 40000, 95000)

\* C6: generate_sample_data(N) returns exactly N records, N - floor(0.80*N) of
\* them from the anomalous pattern and the other floor(0.80*N) from the normal
\* pattern.
C6_GeneratedCounts ==
    table # NoTable =>
        LET n == table.num_records
            R == table.df.rows
        IN  /\ Len(R) = n
            /\ Cardinality({i \in 1..Len(R) : FromAnomalousPattern(R[i])})
                  = n - ((4 * n) \div 5)
            /\ Cardinality({i \in 1..Len(R) : FromNormalPattern(R[i])}) = (4 * n) \div 5
            /\ Cardinality({R[i].user_id : i \in 1..Len(R)}) = n

C6_Witness ==
    /\ table.num_records = 4
    /\ Cardinality({i \in 1..Len(table.df.rows) :
                        FromAnomalousPattern(table.df.rows[i])}) = 1
    /\ FromNormalPattern(table.df.rows[4])

(***************************************************************************)
(* SpecRules: one row through classify_attack_type and calculate_risk_level.*)
(***************************************************************************)
\* Values on both sides of every threshold of the two tables.
CpuVals   == {1500, 1999, 2000, 7000, 7001, 7500, 7501, 8000, 8001, 8500, 8501,
              9000, 9001, 9500, 9501}
InVals    == {10000, 60000, 60001, 70000, 70001, 90000, 90001}
OutVals   == {50000, 50001, 60000, 70000, 70001, 80000, 80001, 85000, 90000, 90001}
LoginVals == {3, 4, 5, 10, 11, 15, 16, 20, 21, 25}
ScoreVals == {-31, -30, -16, -15, 10}

RuleRows == [login_count : LoginVals, cpu_usage : CpuVals, network_in : InVals,
             network_out : OutVals, anomaly_score : ScoreVals]

ClassifyRow ==
    /\ attack_type = NoResult
    /\ attack_type' = classify_attack_type(row)
    /\ UNCHANGED <<row, risk_level, detVars, genVars, mainVars, fileVars, reqVars>>

ScoreRow ==
    /\ risk_level = NoResult
    /\ risk_level' = calculate_risk_level(row)
    /\ UNCHANGED <<row, attack_type, detVars, genVars, mainVars, fileVars, reqVars>>

InitRules ==
    /\ row \in RuleRows
    /\ attack_type = NoResult /\ risk_level = NoResult
    /\ IdleDet /\ IdleGen /\ IdleMain /\ IdleFiles /\ IdleReq

NextRules == ClassifyRow \/ ScoreRow

SpecRules == InitRules /\ [][NextRules]_vars

RuleHolds(i, r) ==
    CASE i = 1 -> r.network_out > 80000 /\ r.cpu_usage > 8500
      [] i = 2 -> r.login_count > 15 /\ r.cpu_usage > 8000
      [] i = 3 -> r.cpu_usage > 9500 /\ r.network_in > 60000
      [] i = 4 -> r.network_in > 70000 /\ r.network_out > 70000
      [] i = 5 -> r.login_count > 20
      [] i = 6 -> r.network_in > 90000 \/ r.network_out > 90000
      [] i = 7 -> r.cpu_usage > 9000 /\ r.login_count < 5
      [] i = 8 -> r.login_count > 10 /\ r.cpu_usage > 7500
      [] i = 9 -> r.cpu_usage < 2000 /\ r.network_out > 50000

RuleLabel ==
    <<"Data Breach", "Account Hijacking", "Malware Injection", "Insecure APIs",
      "Phishing Impact", "DoS / DDoS", "Insider Threats", "Shared Vulnerabilities",
      "Cloud Misconfiguration">>

\* C1: the label is that of the lowest-numbered rule whose predicate holds for
\* the row, "Unknown Threat" when none holds; out=850, cpu=90, logins=25 is
\* "Data Breach" and cpu=15, out=600, in=100, logins=3 is "Cloud Misconfiguration".
C1_FirstMatchWins ==
    attack_type # NoResult =>
        LET M == {i \in 1..9 : RuleHolds(i, row)}
        IN  /\ attack_type = IF M = {} THEN "Unknown Threat" ELSE RuleLabel[Min(M)]
            /\ (row.network_out = 85000 /\ row.cpu_usage = 9000 /\ row.login_count = 25)
                  => attack_type = "Data Breach"
            /\ (row.cpu_usage = 1500 /\ row.network_out = 60000 /\ row.network_in = 10000
                  /\ row.login_count = 3) => attack_type = "Cloud Misconfiguration"

C1_Witness ==
    /\ attack_type = "Data Breach"
    /\ row.network_out = 85000 /\ row.cpu_usage = 9000 /\ row.login_count = 25
    /\ RuleHolds(5, row)

\* C2: the risk is "High" when score < -0.3 or cpu > 90 or out > 800, otherwise
\* "Medium" when score < -0.15 or cpu > 70 or out > 500, otherwise "Low";
\* cpu=15, out=600, score=0.1 gives "Medium".
C2_RiskLevelRules ==
    risk_level # NoResult =>
        LET high   == row.anomaly_score < -30 \/ row.cpu_usage > 9000
                        \/ row.network_out > 80000
            medium == row.anomaly_score < -15 \/ row.cpu_usage > 7000
                        \/ row.network_out > 50000
        IN  /\ high => risk_level = "High"
            /\ (~high /\ medium) => risk_level = "Medium"
            /\ (~high /\ ~medium) => risk_level = "Low"
            /\ (row.cpu_usage = 1500 /\ row.network_out = 60000 /\ row.anomaly_score = 10)
                  => risk_level = "Medium"

C2_Witness ==
    /\ risk_level = "Medium"
    /\ row.cpu_usage = 1500 /\ row.network_out = 60000 /\ row.anomaly_score = 10

\* C9: a row labelled "Data Breach", "Malware Injection" or "Insider Threats"
\* has risk "High" whatever its anomaly_score, and a row labelled
\* "Account Hijacking", "Insecure APIs", "Shared Vulnerabilities" or
\* "Cloud Misconfiguration" never has risk "Low".
C9_TablesAgreeOnSeverity ==
    (attack_type # NoResult /\ risk_level # NoResult) =>
        /\ attack_type \in {"Data Breach", "Malware Injection", "Insider Threats"}
              => risk_level = "High"
        /\ attack_type \in {"Account Hijacking", "Insecure APIs",
                            "Shared Vulnerabilities", "Cloud Misconfiguration"}
              => risk_level # "Low"

C9_Witness ==
    /\ attack_type = "Insider Threats"
    /\ risk_level = "High"
    /\ row.anomaly_score = 10
    /\ row.network_out <= 80000

(***************************************************************************)
(* SpecServe: requests served one at a time over any contents of the two   *)
(* tables.  SpecConcurrent: several requests in flight at once.            *)
(***************************************************************************)
MaxThreats  == 2       \* rows of a threat table
MaxRequests == 2       \* requests in flight in SpecConcurrent

ARow == CHOOSE r \in AnomalousPattern : r.login_count = 24
BRow == CHOOSE r \in AnomalousPattern : r.login_count = 16
NRow == CHOOSE r \in NormalPattern : r.login_count = 7

ServeLogFiles ==
    { NoFile,
      to_csv(EmptyFrame),
      to_csv([cols |-> ActivityCols, rows |-> <<WithUser(1, ARow)>>]),
      to_csv([cols |-> ActivityCols, rows |-> <<WithUser(2, NRow), WithUser(1, ARow)>>]),
      to_csv([cols |-> ActivityCols, rows |-> <<WithUser(1, ARow), WithUser(1, BRow)>>]) }

ThreatRows ==
    { [user_id |-> UserId(u), attack_type |-> a, risk_level |-> calculate_risk_level(x),
       cpu_usage |-> x.cpu_usage, network_out |-> x.network_out,
       anomaly_score |-> x.anomaly_score] :
      u \in {1, 2},
      a \in {"Unknown Threat"},
      x \in { [cpu_usage |-> 9000, network_out |-> 85000, anomaly_score |-> -50],
              [cpu_usage |-> 8100, network_out |-> 45000, anomaly_score |-> -10],
              [cpu_usage |-> 7000, network_out |-> 40000, anomaly_score |-> -10] } }

ServeThreatFiles ==
    { NoFile, to_csv(NoFrame), to_csv([cols |-> ThreatCols, rows |-> <<>>]) }
    \cup UNION { { to_csv([cols |-> ThreatCols, rows |-> rows]) :
                   rows \in [1..n -> ThreatRows] } : n \in 1..MaxThreats }

Begin       == \E r \in DOMAIN req : ReqBegin(r)
ReadLogs    == \E r \in DOMAIN req : ReqReadLogs(r)
ReadThreats == \E r \in DOMAIN req : ReqReadThreats(r)
Respond     == \E r \in DOMAIN req : ReqRespond(r)
Refresh     == \E r \in DOMAIN req : ReqRefresh(r)

NextServe == Begin \/ ReadLogs \/ ReadThreats \/ Respond \/ Refresh

InitServe ==
    /\ cloud_logs_csv \in ServeLogFiles
    /\ detected_threats_csv \in ServeThreatFiles
    /\ req = [r \in 1..1 |-> IdleRequest]
    /\ IdleRules /\ IdleDet /\ IdleGen /\ IdleMain

SpecServe == InitServe /\ [][NextServe]_vars

InitConcurrent ==
    /\ cloud_logs_csv \in {NoFile, OldLogs}
    /\ detected_threats_csv \in {NoFile, OldThreats}
    /\ req = [r \in 1..MaxRequests |-> IdleRequest]
    /\ IdleRules /\ IdleDet /\ IdleGen /\ IdleMain

SpecConcurrent == InitConcurrent /\ [][NextServe]_vars

ReadFailed(q) == q.cloud_logs = NoFrame \/ q.threats = NoFrame

\* C4: when the read of the activity table or of the threat table failed, the
\* operation (get_user_summary, get_user_details, api_statistics) answers with a
\* fallback or empty result and raises nothing.
C4_FallbackOnFailedRead ==
    \A r \in DOMAIN req :
        (req[r].pc = "done" /\ req[r].kind # "api_refresh" /\ ReadFailed(req[r]))
            => req[r].response.raised = "none"

UserRisks(rows, user_id) == {rows[i].risk_level : i \in {j \in 1..Len(rows) :
                                                             rows[j].user_id = user_id}}

ExpectedCount(rows, user_id) ==
    Cardinality({i \in 1..Len(rows) : rows[i].user_id = user_id})

ExpectedRisk(rows, user_id) ==
    LET risks == UserRisks(rows, user_id)
    IN  IF risks = {} THEN "Normal"
        ELSE IF "High" \in risks THEN "High"
        ELSE IF "Medium" \in risks THEN "Medium" ELSE "Low"

BothLoaded(q) == q.cloud_logs # NoFrame /\ q.threats # NoFrame

\* C10: when both tables load, for every user_id of the activity table the entry
\* of get_user_summary and the result of get_user_details carry the same
\* threat_count (the number of the user's Threat Records) and the same highest
\* risk (High over Medium over Low, "Normal" without any threat).
C10_SummaryAgreesWithDetails ==
    \A r \in DOMAIN req :
        (req[r].pc = "done" /\ BothLoaded(req[r])) =>
            LET q   == req[r]
                ids == Range(Column(q.cloud_logs.rows, "user_id"))
            IN  /\ q.kind = "api_users" =>
                     /\ q.response.raised = "none"
                     /\ {q.response.body.users[i].user_id :
                            i \in 1..Len(q.response.body.users)} = ids
                     /\ Len(q.response.body.users) = Cardinality(ids)
                     /\ \A i \in 1..Len(q.response.body.users) :
                          LET e == q.response.body.users[i]
                              d == get_user_details(q.cloud_logs, q.threats, e.user_id)
                          IN  /\ d.raised = "none" /\ d.value # None
                              /\ e.threat_count = d.value.threat_count
                              /\ e.risk_level = d.value.highest_risk
                              /\ e.threat_count = ExpectedCount(q.threats.rows, e.user_id)
                              /\ e.risk_level = ExpectedRisk(q.threats.rows, e.user_id)
                /\ (q.kind \in WithUserId /\ q.user_id \in ids) =>
                     /\ q.response.status = 200
                     /\ \E i \in 1..Len(get_user_summary(q.cloud_logs, q.threats).value) :
                          LET e == get_user_summary(q.cloud_logs, q.threats).value[i]
                          IN  /\ e.user_id = q.user_id
                              /\ e.threat_count = q.response.body.user.threat_count
                              /\ e.risk_level = q.response.body.user.highest_risk
                     /\ q.response.body.user.threat_count
                           = ExpectedCount(q.threats.rows, q.user_id)
                     /\ q.response.body.user.highest_risk
                           = ExpectedRisk(q.threats.rows, q.user_id)

C10_Witness ==
    \E r \in DOMAIN req :
        /\ req[r].pc = "done" /\ req[r].kind = "api_users" /\ BothLoaded(req[r])
        /\ Len(req[r].response.body.users) = 2
        /\ req[r].response.body.users[1].threat_count = 2
        /\ req[r].response.body.users[1].risk_level = "Medium"
        /\ req[r].response.body.users[2].risk_level = "Normal"

====
